---- MODULE Spec2Model ----
(***************************************************************************)
(* PyMD4C: the bridge between the MD4C engine and Python.                  *)
(*                                                                         *)
(*  - GenericParser.parse (generic_parser.c): the five C callbacks that    *)
(*    forward the engine's events to the Python handlers, and the code     *)
(*    after md_parse() that decides between None, a propagated exception   *)
(*    and ParseError.                                                      *)
(*  - GenericParser_md_attribute: MD_ATTRIBUTE -> list of (type, slice).   *)
(*  - HTMLRenderer.parse (html_renderer.c): the DynamicBuffer, the         *)
(*    md_html() output callback and the GIL release around the render.     *)
(*                                                                         *)
(* The MD4C engine (md_parse, md_html) is the environment: it emits a      *)
(* well-nested event stream, stops at the first non-zero callback return   *)
(* and returns that value, and may fail on its own with -1.                *)
(***************************************************************************)
EXTENDS Integers, Sequences, FiniteSets, TLC

(***************************************************************************)
(* Bounds                                                                  *)
(***************************************************************************)
MaxEvents == 8
MaxChunks == 3
MaxConcChunks == 2
MaxReallocs == 2
MaxAttrSize == 3
MaxSubstrs == 3
MaxTrueKeywords == 2
MaxEntityLen == 5
MaxOldChunks == 2

(***************************************************************************)
(* Vocabulary                                                              *)
(***************************************************************************)
NestedBlockTypes == {"QUOTE", "P"}
LeafBlockTypes == {"P"}
SpanTypes == {"EM", "A"}
TextTypes == {"NORMAL", "ENTITY"}
InputTypes == {"bytes", "str", "other"}
HandlerReturns == {"None", "False", "0", "object"}
HandlerRaises == {"StopParsing", "ValueError", "ParseError"}
HandlerOutcomes == HandlerReturns \cup HandlerRaises
CallbackNames == <<"enter_block_callback", "leave_block_callback",
                   "enter_span_callback", "leave_span_callback",
                   "text_callback">>

VARIABLES
    pc,          \* GenericParser_parse: "call", "md_parse", "md_parse_returned", "returned"
    input_obj,   \* the type of the input object: "bytes", "str", "other"
    cb_data,     \* GenericParserCallbackData: is_bytes, and whether each callback is callable
    stack,       \* engine: the open blocks and spans, innermost last
    events,      \* engine: the events emitted so far, in order
    calls,       \* the handler invocations made so far, in order
    handler_result, \* PyObject *result of the last PyObject_CallObject, "NULL" when it raised
    raised,      \* the exception a handler raised, with the event it was raised at
    pyerr,       \* the thread's pending Python exception (PyErr_Occurred)
    result,      \* int result of md_parse, as rewritten after the call
    retval,      \* what GenericParser_parse returned: "unset", "None", "NULL"
    \* HTMLRenderer.parse, one entry per call on the same renderer object
    self,        \* HTMLRendererObject: parser_flags, renderer_flags
    gil,         \* the call (thread) holding the GIL, 0 when nobody holds it
    rpc,         \* where each call is in HTMLRenderer_parse
    rinput,      \* the type of each call's input object
    buf,         \* each call's DynamicBuffer (a local of HTMLRenderer_parse)
    chunks,      \* md_html: the chunks handed to each call's output callback
    appendrc,    \* the return values of each call's buffer_append calls
    sts,         \* each call's md_html result
    rerr,        \* each call's pending Python exception
    rret,        \* what each call returned
    \* GenericParser_md_attribute
    apc,         \* "input", "done"
    attr,        \* the MD_ATTRIBUTE
    a_is_bytes,  \* the is_bytes argument
    nomem_at,    \* which allocation of the call fails, 0 for none
    a_out,       \* the returned object and the array entries read
    \* the argument construction of GenericParser_block / _span / _text
    epc,         \* "idle", "input", "done"
    ev_in,       \* the engine's event: fam, type and the detail structure or text
    e_is_bytes,  \* the is_bytes argument
    e_alloc_ok,  \* whether the allocations of Py_BuildValue succeed
    arglist,     \* PyObject *arglist
    twin_arglist, \* arglist for the same event of a parse with the other is_bytes
    \* GenericParser_init and HTMLRenderer_init
    fpc,         \* "idle", "input", "done"
    ctor,        \* the constructor called: "GenericParser" or "HTMLRenderer"
    kwds,        \* the call's arguments: parser_flags, renderer_flags, the true keywords
    gp_self,     \* GenericParserObject: parser_flags
    \* lookup_entity
    lpc,         \* "idle", "input", "done"
    entity,      \* the argument: the characters' codes
    l_result,    \* PyObject *result as returned
    \* HTMLRenderer.parse of src/pymd4c.c, one entry per call on the same object
    old_self,    \* HTMLRendererObject: output, out_size, out_mutex (the call owning it)
    old_gil,     \* the call (thread) holding the GIL, 0 when nobody holds it
    old_pc,      \* where each call is in HTMLRenderer_parse
    old_nchunks, \* md_html: how many chunks each call's engine has produced
    old_locals,  \* each call's locals output and out_size
    old_arg,     \* the pointer each call has read for Py_BuildValue
    old_sts,     \* each call's md_html result
    old_err,     \* each call's pending Python exception
    old_ret      \* what each call returned

varsP == <<pc, input_obj, cb_data, stack, events, calls, handler_result, raised, pyerr,
           result, retval>>
varsR == <<self, gil, rpc, rinput, buf, chunks, appendrc, sts, rerr, rret>>
varsA == <<apc, attr, a_is_bytes, nomem_at, a_out>>
varsE == <<epc, ev_in, e_is_bytes, e_alloc_ok, arglist, twin_arglist>>
varsF == <<fpc, ctor, kwds, gp_self>>
varsL == <<lpc, entity, l_result>>
varsH == <<old_self, old_gil, old_pc, old_nchunks, old_locals, old_arg, old_sts, old_err,
           old_ret>>
varsO == <<varsE, varsF, varsL, varsH>>
vars == <<varsP, varsR, varsA, varsO>>

(***************************************************************************)
(* generic_parser.c: GenericParser_md_attribute                            *)
(*                                                                         *)
(* An MD_ATTRIBUTE is text (NULL when the attribute is missing), size,     *)
(* substr_types[0..N-1] and substr_offsets[0..N]; text is a sequence of    *)
(* bytes.  A C index i is entry i + 1 of the sequence.                     *)
(***************************************************************************)
AttrBytes == {97, 195, 169}
AttrTextTypes == {"NORMAL", "ENTITY"}

\* the "s#" format: UTF-8 bytes to a str (a sequence of code points)
RECURSIVE Utf8Decode(_)
Utf8Decode(b) ==
    IF b = <<>> THEN [ok |-> TRUE, val |-> <<>>]
    ELSE IF b[1] < 128
    THEN [ok |-> Utf8Decode(Tail(b)).ok,
          val |-> <<b[1]>> \o Utf8Decode(Tail(b)).val]
    ELSE IF b[1] \in 194..223 /\ Len(b) >= 2 /\ b[2] \in 128..191
    THEN [ok |-> Utf8Decode(SubSeq(b, 3, Len(b))).ok,
          val |-> <<(b[1] - 192) * 64 + (b[2] - 128)>>
                     \o Utf8Decode(SubSeq(b, 3, Len(b))).val]
    ELSE [ok |-> FALSE, val |-> <<>>]

\* Py_BuildValue with "y#" (bytes, verbatim) or "s#" (str, decoded)
PyText(is_bytes, b) ==
    IF is_bytes
    THEN [ok |-> TRUE, obj |-> [kind |-> "bytes", val |-> b]]
    ELSE [ok |-> Utf8Decode(b).ok, obj |-> [kind |-> "str", val |-> Utf8Decode(b).val]]

SliceOf_length_is_end(a, i) ==
    LET start == a.substr_offsets[i + 1]
        length == a.substr_offsets[i + 2]
    IN  SubSeq(a.text, start + 1, IF start + length <= a.size THEN start + length ELSE a.size)

\* attr->text + substr_offsets[i], substr_offsets[i + 1] - substr_offsets[i]
SliceOf(a, i) ==
    LET start == a.substr_offsets[i + 1]
        length == a.substr_offsets[i + 2] - a.substr_offsets[i + 1]
    IN  SubSeq(a.text, start + 1, start + length)

\* a loop that looks one entry ahead for the end
RECURSIVE md_attribute_loop_looks_ahead(_, _, _, _, _)
md_attribute_loop_looks_ahead(a, is_bytes, i, list, fail_at) ==
    IF i + 2 > Len(a.substr_offsets)
    THEN [ret |-> "out_of_bounds", list |-> list, read |-> i + 2]
    ELSE IF a.substr_offsets[i + 2] = a.size
    THEN [ret |-> "list", list |-> list, read |-> i + 2]
    ELSE IF fail_at = i + 2 \/ ~PyText(is_bytes, SliceOf(a, i)).ok
    THEN [ret |-> "NULL", list |-> <<>>, read |-> i + 2]
    ELSE md_attribute_loop_looks_ahead(a, is_bytes, i + 1,
             Append(list, <<a.substr_types[i + 1], PyText(is_bytes, SliceOf(a, i)).obj>>),
             fail_at)

\* the for loop; fail_at is the allocation that fails (1 is PyList_New,
\* k + 1 the k-th item), read the number of substr_offsets entries read
RECURSIVE md_attribute_loop(_, _, _, _, _)
md_attribute_loop(a, is_bytes, i, list, fail_at) ==
    IF i + 1 > Len(a.substr_offsets)
    THEN [ret |-> "out_of_bounds", list |-> list, read |-> i + 1]
    ELSE IF a.substr_offsets[i + 1] = a.size
    THEN [ret |-> "list", list |-> list, read |-> i + 1]
    ELSE IF i + 2 > Len(a.substr_offsets)
    THEN [ret |-> "out_of_bounds", list |-> list, read |-> i + 2]
    ELSE IF fail_at = i + 2 \/ ~PyText(is_bytes, SliceOf(a, i)).ok
    THEN [ret |-> "NULL", list |-> <<>>, read |-> i + 2]
    ELSE md_attribute_loop(a, is_bytes, i + 1,
             Append(list, <<a.substr_types[i + 1], PyText(is_bytes, SliceOf(a, i)).obj>>),
             fail_at)

\* without the test of attr->text
GenericParser_md_attribute_no_null_check(a, is_bytes, fail_at) ==
    IF fail_at = 1
    THEN [ret |-> "NULL", list |-> <<>>, read |-> 0]
    ELSE md_attribute_loop(a, is_bytes, 0, <<>>, fail_at)

GenericParser_md_attribute(a, is_bytes, fail_at) ==
    IF a.text_null
    THEN [ret |-> "None", list |-> <<>>, read |-> 0]
    ELSE IF fail_at = 1
    THEN [ret |-> "NULL", list |-> <<>>, read |-> 0]
    ELSE md_attribute_loop(a, is_bytes, 0, <<>>, fail_at)

\* a missing attribute is all zero
NullAttr == [text_null |-> TRUE, text |-> <<>>, size |-> 0,
             substr_types |-> <<>>, substr_offsets |-> <<>>]

(***************************************************************************)
(* Python objects built by Py_BuildValue: every object is a record with    *)
(* its kind; a dict is a function from its keys to objects.                *)
(***************************************************************************)
Py_None == [kind |-> "NoneType"]

Py_True == [kind |-> "bool", val |-> TRUE]

Py_False == [kind |-> "bool", val |-> FALSE]

PyBool_FromLong(v) == IF v /= 0 THEN Py_True ELSE Py_False

\* the "C" format: a C int as a str of one character
PyChar(c) == [kind |-> "str", val |-> <<c>>]

\* A 32-bit unsigned value is its two 16-bit halves, hi * 65536 + lo.
U32(n) == [hi |-> (n \div 65536) % 65536, lo |-> n % 65536]

\* the "I" format: a C unsigned int as an int, never negative; the int's
\* magnitude is kept in the same two halves
PyUnsigned(v) == [kind |-> "int", neg |-> FALSE, hi |-> v.hi, lo |-> v.lo]

EmptyDict == [k \in {} |-> Py_None]

get_enum_blocktype(type) == [kind |-> "BlockType", val |-> type]

get_enum_spantype(type) == [kind |-> "SpanType", val |-> type]

get_enum_texttype(type) == [kind |-> "TextType", val |-> type]

\* MD_ALIGN: 0 default, 1 left, 2 center, 3 right
get_enum_align(align) ==
    [kind |-> "Align", val |-> <<"DEFAULT", "LEFT", "CENTER", "RIGHT">>[align + 1]]

\* the "O" argument made of GenericParser_md_attribute's return value
AttrObj(a, is_bytes) ==
    LET r == GenericParser_md_attribute(a, is_bytes, 0)
    IN  [ok |-> r.ret \in {"None", "list"},
         obj |-> IF r.ret = "None" THEN Py_None ELSE [kind |-> "list", val |-> r.list]]

(***************************************************************************)
(* GenericParser_block: the detail dict of each block type.  d is the      *)
(* engine's detail structure.                                              *)
(***************************************************************************)
UlDetail(d) ==
    [is_tight |-> PyBool_FromLong(d.is_tight), mark |-> PyChar(d.mark)]

\* start built with the "i" format: the 32 bits read as a signed int
OlDetail_start_signed(d) ==
    [start |-> IF d.start.hi < 32768
               THEN [kind |-> "int", neg |-> FALSE, hi |-> d.start.hi, lo |-> d.start.lo]
               ELSE [kind |-> "int", neg |-> TRUE,
                     hi |-> IF d.start.lo = 0 THEN 65536 - d.start.hi ELSE 65535 - d.start.hi,
                     lo |-> (65536 - d.start.lo) % 65536],
     is_tight |-> PyBool_FromLong(d.is_tight),
     mark_delimiter |-> PyChar(d.mark_delimiter)]

OlDetail(d) ==
    [start |-> PyUnsigned(d.start), is_tight |-> PyBool_FromLong(d.is_tight),
     mark_delimiter |-> PyChar(d.mark_delimiter)]

LiDetail_always_task_keys(d) ==
    [is_task |-> PyBool_FromLong(d.is_task), task_mark |-> PyChar(d.task_mark),
     task_mark_offset |-> PyUnsigned(d.task_mark_offset)]

LiDetail(d) ==
    IF d.is_task /= 0
    THEN [is_task |-> Py_True, task_mark |-> PyChar(d.task_mark),
          task_mark_offset |-> PyUnsigned(d.task_mark_offset)]
    ELSE [is_task |-> Py_False]

HDetail(d) == [level |-> PyUnsigned(d.level)]

CodeDetail(d, is_bytes) ==
    IF d.fence_char = 0
    THEN [ok |-> TRUE, dict |-> [fence_char |-> Py_None]]
    ELSE [ok |-> AttrObj(d.info, is_bytes).ok /\ AttrObj(d.lang, is_bytes).ok,
          dict |-> [info |-> AttrObj(d.info, is_bytes).obj,
                    lang |-> AttrObj(d.lang, is_bytes).obj,
                    fence_char |-> PyChar(d.fence_char)]]

\* no break after the table case: the cell case overwrites the arguments,
\* reading the table's first field as the alignment
TableDetail_missing_break(d) == [align |-> get_enum_align(d.col_count.lo % 4)]

TableDetail(d) ==
    [col_count |-> PyUnsigned(d.col_count),
     head_row_count |-> PyUnsigned(d.head_row_count),
     body_row_count |-> PyUnsigned(d.body_row_count)]

CellDetail(d) == [align |-> get_enum_align(d.align)]

BlockDetail(type, d, is_bytes) ==
    CASE type = "UL" -> [ok |-> TRUE, dict |-> UlDetail(d)]
      [] type = "OL" -> [ok |-> TRUE, dict |-> OlDetail(d)]
      [] type = "LI" -> [ok |-> TRUE, dict |-> LiDetail(d)]
      [] type = "H" -> [ok |-> TRUE, dict |-> HDetail(d)]
      [] type = "CODE" -> CodeDetail(d, is_bytes)
      [] type = "TABLE" -> [ok |-> TRUE, dict |-> TableDetail(d)]
      [] type \in {"TH", "TD"} -> [ok |-> TRUE, dict |-> CellDetail(d)]
      [] OTHER -> [ok |-> TRUE, dict |-> EmptyDict]

(***************************************************************************)
(* GenericParser_span: the detail dict of each span type                   *)
(***************************************************************************)
SpanDetail_title_as_text(type, d, is_bytes) ==
    CASE type = "A" ->
            [ok |-> AttrObj(d.href, is_bytes).ok /\ AttrObj(d.title, FALSE).ok,
             dict |-> [href |-> AttrObj(d.href, is_bytes).obj,
                       title |-> AttrObj(d.title, FALSE).obj]]
      [] type = "IMG" ->
            [ok |-> AttrObj(d.src, is_bytes).ok /\ AttrObj(d.title, FALSE).ok,
             dict |-> [src |-> AttrObj(d.src, is_bytes).obj,
                       title |-> AttrObj(d.title, FALSE).obj]]
      [] type = "WIKILINK" ->
            [ok |-> AttrObj(d.target, is_bytes).ok,
             dict |-> [target |-> AttrObj(d.target, is_bytes).obj]]
      [] OTHER -> [ok |-> TRUE, dict |-> EmptyDict]

SpanDetail(type, d, is_bytes) ==
    CASE type = "A" ->
            [ok |-> AttrObj(d.href, is_bytes).ok /\ AttrObj(d.title, is_bytes).ok,
             dict |-> [href |-> AttrObj(d.href, is_bytes).obj,
                       title |-> AttrObj(d.title, is_bytes).obj]]
      [] type = "IMG" ->
            [ok |-> AttrObj(d.src, is_bytes).ok /\ AttrObj(d.title, is_bytes).ok,
             dict |-> [src |-> AttrObj(d.src, is_bytes).obj,
                       title |-> AttrObj(d.title, is_bytes).obj]]
      [] type = "WIKILINK" ->
            [ok |-> AttrObj(d.target, is_bytes).ok,
             dict |-> [target |-> AttrObj(d.target, is_bytes).obj]]
      [] OTHER -> [ok |-> TRUE, dict |-> EmptyDict]

(***************************************************************************)
(* The argument tuples of the three C callbacks.  alloc_ok is FALSE when   *)
(* an allocation of Py_BuildValue fails; arglist is then NULL.             *)
(***************************************************************************)
NullArglist == [built |-> FALSE]

GenericParser_block_arglist(type, d, is_bytes, alloc_ok) ==
    IF alloc_ok /\ BlockDetail(type, d, is_bytes).ok
    THEN [built |-> TRUE, type |-> get_enum_blocktype(type),
          detail |-> BlockDetail(type, d, is_bytes).dict]
    ELSE NullArglist

GenericParser_span_arglist(type, d, is_bytes, alloc_ok) ==
    IF alloc_ok /\ SpanDetail(type, d, is_bytes).ok
    THEN [built |-> TRUE, type |-> get_enum_spantype(type),
          detail |-> SpanDetail(type, d, is_bytes).dict]
    ELSE NullArglist

GenericParser_text_arglist_always_str(type, text, is_bytes, alloc_ok) ==
    IF alloc_ok /\ PyText(FALSE, text).ok
    THEN [built |-> TRUE, type |-> get_enum_texttype(type),
          text |-> PyText(FALSE, text).obj]
    ELSE NullArglist

GenericParser_text_arglist(type, text, is_bytes, alloc_ok) ==
    IF alloc_ok /\ PyText(is_bytes, text).ok
    THEN [built |-> TRUE, type |-> get_enum_texttype(type),
          text |-> PyText(is_bytes, text).obj]
    ELSE NullArglist

(***************************************************************************)
(* What the engine hands over in a parse: the detail of a link and the     *)
(* text of a text event (UTF-8, with a two-byte character).                *)
(***************************************************************************)
LinkHref == [text_null |-> FALSE, text |-> <<97, 195, 169>>, size |-> 3,
             substr_types |-> <<"NORMAL", "ENTITY">>, substr_offsets |-> <<0, 1, 3>>]

EngineDetail(type) ==
    IF type = "A" THEN [href |-> LinkHref, title |-> NullAttr] ELSE EmptyDict

EngineText(type) ==
    IF type = "ENTITY" THEN <<38, 97, 59>> ELSE <<195, 169, 97>>

(***************************************************************************)
(* Python exceptions: the type, who set it, and the event it was set at    *)
(***************************************************************************)
NoExc == [type |-> "none", origin |-> "none", at |-> 0]

Exc(type, origin, at) == [type |-> type, origin |-> origin, at |-> at]

PyErr_Occurred(err) == err.type /= "none"

PyErr_ExceptionMatches(err, type) == err.type = type

(***************************************************************************)
(* GenericParser_block / _span / _text: the part after the arguments are   *)
(* built.  A handler that raises leaves its exception pending and makes    *)
(* the C callback return -1; any returned object is dropped and the        *)
(* callback returns 0.                                                     *)
(***************************************************************************)
CallbackReturn_ignores_raise(arglist_built, outcome) ==
    IF ~arglist_built THEN -1 ELSE 0

CallbackReturn_falsy_stops(arglist_built, outcome) ==
    IF ~arglist_built THEN -1
    ELSE IF outcome \in HandlerRaises \cup {"False", "0"} THEN -1
    ELSE 0

CallbackReturn(arglist_built, outcome) ==
    IF ~arglist_built THEN -1
    ELSE IF outcome \in HandlerRaises THEN -1
    ELSE 0

\* One C callback: build the arguments, call the Python handler, map the
\* outcome.  ev is the engine's event, newstack the engine's stack if the
\* parse goes on.
Dispatch(cb, ev, newstack, args, outcome) ==
    LET n == Len(events) + 1
        ret == CallbackReturn(args.built, outcome)
    IN  /\ events' = Append(events, ev)
        /\ calls' = IF args.built
                    THEN Append(calls, [cb |-> cb, type |-> ev.type, args |-> args])
                    ELSE calls
        /\ handler_result' = IF ~args.built THEN handler_result
                             ELSE IF outcome \in HandlerRaises THEN "NULL"
                             ELSE outcome
        /\ raised' = IF args.built /\ outcome \in HandlerRaises
                     THEN Exc(outcome, "handler", n)
                     ELSE raised
        /\ pyerr' = IF ~args.built THEN Exc("MemoryError", "bridge", n)
                    ELSE IF outcome \in HandlerRaises THEN Exc(outcome, "handler", n)
                    ELSE pyerr
        \* md_parse: a non-zero return aborts the parse and is its result
        /\ IF ret /= 0
           THEN /\ result' = ret
                /\ pc' = "md_parse_returned"
                /\ stack' = stack
           ELSE /\ result' = result
                /\ pc' = pc
                /\ stack' = newstack
        /\ UNCHANGED <<input_obj, cb_data, retval, varsR, varsA, varsO>>

Top == stack[Len(stack)]

Room(k) == Len(events) + Len(stack) + k <= MaxEvents

GenericParser_enter_block(type, arglist_built, outcome) ==
    /\ pc = "md_parse"
    /\ \/ events = <<>> /\ type = "DOC"
       \/ /\ type \in NestedBlockTypes
          /\ stack /= <<>>
          /\ Top.fam = "block"
          /\ Top.type \notin LeafBlockTypes
          /\ Room(2)
    /\ Dispatch("enter_block_callback", [ev |-> "enter_block", type |-> type],
                Append(stack, [fam |-> "block", type |-> type]),
                GenericParser_block_arglist(type, EngineDetail(type), cb_data.is_bytes,
                                            arglist_built),
                outcome)

GenericParser_leave_block_calls_enter(arglist_built, outcome) ==
    /\ pc = "md_parse"
    /\ stack /= <<>>
    /\ Top.fam = "block"
    /\ Dispatch("enter_block_callback", [ev |-> "leave_block", type |-> Top.type],
                SubSeq(stack, 1, Len(stack) - 1),
                GenericParser_block_arglist(Top.type, EngineDetail(Top.type),
                                            cb_data.is_bytes, arglist_built),
                outcome)

GenericParser_leave_block(arglist_built, outcome) ==
    /\ pc = "md_parse"
    /\ stack /= <<>>
    /\ Top.fam = "block"
    /\ Dispatch("leave_block_callback", [ev |-> "leave_block", type |-> Top.type],
                SubSeq(stack, 1, Len(stack) - 1),
                GenericParser_block_arglist(Top.type, EngineDetail(Top.type),
                                            cb_data.is_bytes, arglist_built),
                outcome)

GenericParser_enter_span(type, arglist_built, outcome) ==
    /\ pc = "md_parse"
    /\ type \in SpanTypes
    /\ stack /= <<>>
    /\ Top.fam = "span" \/ Top.type \in LeafBlockTypes
    /\ Room(2)
    /\ Dispatch("enter_span_callback", [ev |-> "enter_span", type |-> type],
                Append(stack, [fam |-> "span", type |-> type]),
                GenericParser_span_arglist(type, EngineDetail(type), cb_data.is_bytes,
                                           arglist_built),
                outcome)

GenericParser_leave_span_calls_enter(arglist_built, outcome) ==
    /\ pc = "md_parse"
    /\ stack /= <<>>
    /\ Top.fam = "span"
    /\ Dispatch("enter_span_callback", [ev |-> "leave_span", type |-> Top.type],
                SubSeq(stack, 1, Len(stack) - 1),
                GenericParser_span_arglist(Top.type, EngineDetail(Top.type),
                                           cb_data.is_bytes, arglist_built),
                outcome)

GenericParser_leave_span(arglist_built, outcome) ==
    /\ pc = "md_parse"
    /\ stack /= <<>>
    /\ Top.fam = "span"
    /\ Dispatch("leave_span_callback", [ev |-> "leave_span", type |-> Top.type],
                SubSeq(stack, 1, Len(stack) - 1),
                GenericParser_span_arglist(Top.type, EngineDetail(Top.type),
                                           cb_data.is_bytes, arglist_built),
                outcome)

GenericParser_text(type, arglist_built, outcome) ==
    /\ pc = "md_parse"
    /\ type \in TextTypes
    /\ stack /= <<>>
    /\ Top.fam = "span" \/ Top.type \in LeafBlockTypes
    /\ Room(1)
    /\ Dispatch("text_callback", [ev |-> "text", type |-> type],
                stack,
                GenericParser_text_arglist(type, EngineText(type), cb_data.is_bytes,
                                           arglist_built),
                outcome)

(***************************************************************************)
(* md_parse returning on its own: 0 when the document is closed, -1 when   *)
(* the engine fails (out of memory); no callback is involved in either.    *)
(***************************************************************************)
md_parse_done ==
    /\ pc = "md_parse"
    /\ events /= <<>>
    /\ stack = <<>>
    /\ result' = 0
    /\ pc' = "md_parse_returned"
    /\ UNCHANGED <<input_obj, cb_data, stack, events, calls, handler_result, raised, pyerr,
                   retval, varsR, varsA, varsO>>

md_parse_fail ==
    /\ pc = "md_parse"
    /\ result' = -1
    /\ pc' = "md_parse_returned"
    /\ UNCHANGED <<input_obj, cb_data, stack, events, calls, handler_result, raised, pyerr,
                   retval, varsR, varsA, varsO>>

(***************************************************************************)
(* GenericParser_parse, before md_parse: input extraction and the          *)
(* callable checks.                                                        *)
(***************************************************************************)
FirstNonCallable_checks_backwards(callable) ==
    IF \A i \in 1..5 : callable[i] THEN 0
    ELSE CHOOSE i \in 1..5 : ~callable[i] /\ \A j \in (i + 1)..5 : callable[j]

\* the five PyCallable_Check tests, in the order of the code
FirstNonCallable(callable) ==
    IF \A i \in 1..5 : callable[i] THEN 0
    ELSE CHOOSE i \in 1..5 : ~callable[i] /\ \A j \in 1..(i - 1) : callable[j]

GenericParser_parse_begin(input_type, callable) ==
    /\ pc = "call"
    /\ input_obj' = input_type
    /\ IF input_type = "other"
       THEN /\ pyerr' = Exc("TypeError", "bridge", 0)
            /\ retval' = "NULL"
            /\ pc' = "returned"
            /\ cb_data' = [cb_data EXCEPT !.callable = callable]
       ELSE /\ cb_data' = [is_bytes |-> (input_type = "bytes"), callable |-> callable]
            /\ IF FirstNonCallable(callable) /= 0
               THEN /\ pyerr' = Exc("TypeError", CallbackNames[FirstNonCallable(callable)], 0)
                    /\ retval' = "NULL"
                    /\ pc' = "returned"
               ELSE /\ pyerr' = pyerr
                    /\ retval' = retval
                    /\ pc' = "md_parse"
    /\ UNCHANGED <<stack, events, calls, handler_result, raised, result, varsR, varsA, varsO>>

(***************************************************************************)
(* GenericParser_parse, after md_parse                                     *)
(***************************************************************************)
ErrAfterParse_no_parse_error(res, err) ==
    IF res /= 0 /\ PyErr_Occurred(err) /\ PyErr_ExceptionMatches(err, "StopParsing")
    THEN NoExc
    ELSE err

ErrAfterParse_engine_first(res, err) ==
    IF res /= 0
    THEN IF PyErr_Occurred(err) /\ PyErr_ExceptionMatches(err, "StopParsing")
         THEN NoExc
         ELSE Exc("ParseError", "bridge", 0)
    ELSE err

ErrAfterParse(res, err) ==
    IF res /= 0
    THEN IF PyErr_Occurred(err)
         THEN IF PyErr_ExceptionMatches(err, "StopParsing")
              THEN NoExc
              ELSE err
         ELSE Exc("ParseError", "bridge", 0)
    ELSE err

ResultAfterParse_keeps_failure(res, err) == res

ResultAfterParse(res, err) ==
    IF res /= 0 /\ PyErr_Occurred(err) /\ PyErr_ExceptionMatches(err, "StopParsing")
    THEN 0
    ELSE res

GenericParser_parse_end ==
    /\ pc = "md_parse_returned"
    /\ pyerr' = ErrAfterParse(result, pyerr)
    /\ result' = ResultAfterParse(result, pyerr)
    /\ retval' = IF result' = 0 THEN "None" ELSE "NULL"
    /\ pc' = "returned"
    /\ UNCHANGED <<input_obj, cb_data, stack, events, calls, handler_result, raised,
                   varsR, varsA, varsO>>

(***************************************************************************)
(* html_renderer.c: DynamicBuffer                                          *)
(*                                                                         *)
(* data is the allocated block, one entry per byte of capacity; a byte     *)
(* never written holds Indeterminate.  live tells whether data points to   *)
(* an allocation, frees counts the calls of free() on it.                  *)
(***************************************************************************)
DYNAMICBUFFER_INITSIZE == 256

Indeterminate == -1

Calls == {1, 2}

ChunkSizes == {0, 1, 255, 256, 600}
ConcChunkSizes == {1, 300}

NoBuffer == [data |-> <<>>, pos |-> 0, len |-> 0, live |-> FALSE, frees |-> 0]

buffer_init(b, malloc_ok) ==
    IF ~malloc_ok
    THEN [buf |-> b, ret |-> -1]
    ELSE [buf |-> [b EXCEPT !.data = [i \in 1..DYNAMICBUFFER_INITSIZE |-> Indeterminate],
                            !.pos = 0,
                            !.len = DYNAMICBUFFER_INITSIZE,
                            !.live = TRUE],
          ret |-> 0]

buffer_grow_halves(b, realloc_ok) ==
    LET new_len == b.len \div 2
    IN  IF ~realloc_ok
        THEN [buf |-> b, ret |-> -1]
        ELSE [buf |-> [b EXCEPT !.data = [i \in 1..new_len |-> b.data[i]],
                                !.len = new_len,
                                !.pos = IF b.pos < new_len THEN b.pos ELSE new_len],
              ret |-> 0]

buffer_grow(b, realloc_ok) ==
    LET new_len == b.len * 2
    IN  IF ~realloc_ok
        THEN [buf |-> b, ret |-> -1]
        ELSE [buf |-> [b EXCEPT !.data = [i \in 1..new_len |->
                                             IF i <= b.len THEN b.data[i]
                                             ELSE Indeterminate],
                                !.len = new_len],
              ret |-> 0]

\* memcpy(buf->data + buf->pos, data, len); buf->pos += len
CopyIn(b, data) ==
    [b EXCEPT !.data = [i \in 1..b.len |->
                           IF i > b.pos /\ i <= b.pos + Len(data)
                           THEN data[i - b.pos]
                           ELSE b.data[i]],
              !.pos = b.pos + Len(data)]

buffer_append_grows_once(b, data, reallocs) ==
    IF Len(data) > b.len - b.pos
    THEN IF buffer_grow(b, reallocs > 0).ret < 0
         THEN [buf |-> b, ret |-> -1]
         ELSE [buf |-> CopyIn(buffer_grow(b, reallocs > 0).buf, data), ret |-> 0]
    ELSE [buf |-> CopyIn(b, data), ret |-> 0]

\* a failed growth step that resets the buffer
RECURSIVE buffer_append_resets_on_failure(_, _, _)
buffer_append_resets_on_failure(b, data, reallocs) ==
    IF Len(data) > b.len - b.pos
    THEN IF buffer_grow(b, reallocs > 0).ret < 0
         THEN [buf |-> [b EXCEPT !.pos = 0], ret |-> -1]
         ELSE buffer_append_resets_on_failure(buffer_grow(b, reallocs > 0).buf, data,
                                              reallocs - 1)
    ELSE [buf |-> CopyIn(b, data), ret |-> 0]

\* reallocs: how many of the coming realloc() calls succeed
RECURSIVE buffer_append(_, _, _)
buffer_append(b, data, reallocs) ==
    IF Len(data) > b.len - b.pos
    THEN IF buffer_grow(b, reallocs > 0).ret < 0
         THEN [buf |-> b, ret |-> -1]
         ELSE buffer_append(buffer_grow(b, reallocs > 0).buf, data, reallocs - 1)
    ELSE [buf |-> CopyIn(b, data), ret |-> 0]

buffer_free(b) == [b EXCEPT !.live = FALSE, !.frees = b.frees + 1]

\* the bytes [0, pos)
Region(b) == SubSeq(b.data, 1, b.pos)

(***************************************************************************)
(* html_renderer.c: HTMLRenderer.parse                                     *)
(***************************************************************************)
NoResult == [kind |-> "NULL", val |-> <<>>]

BuildResult_whole_capacity(b) == [kind |-> "str", val |-> b.data]

\* Py_BuildValue("s#", data, pos): a str object from the first pos bytes
BuildResult(b) == [kind |-> "str", val |-> Region(b)]

\* the n-th chunk md_html produces in call c
ChunkByte(c, n) == 16 * c + n

Chunk(c, size) == [i \in 1..size |-> ChunkByte(c, Len(chunks[c]) + 1)]

\* a thread holding the GIL calls parse() on the renderer object
thread_call(c) ==
    /\ rpc[c] = "idle"
    /\ gil = 0
    /\ gil' = c
    /\ rpc' = [rpc EXCEPT ![c] = "called"]
    /\ UNCHANGED <<self, rinput, buf, chunks, appendrc, sts, rerr, rret, varsP, varsA, varsO>>

\* PyArg_ParseTuple(args, "s#", ...), then Py_UNBLOCK_THREADS
HTMLRenderer_parse_begin(c, input_type) ==
    /\ rpc[c] = "called"
    /\ rinput' = [rinput EXCEPT ![c] = input_type]
    /\ IF input_type = "other"
       THEN /\ rerr' = [rerr EXCEPT ![c] = Exc("TypeError", "bridge", 0)]
            /\ rpc' = [rpc EXCEPT ![c] = "returned"]
            /\ gil' = gil
       ELSE /\ rerr' = rerr
            /\ rpc' = [rpc EXCEPT ![c] = "unblocked"]
            /\ gil' = 0
    /\ UNCHANGED <<self, buf, chunks, appendrc, sts, rret, varsP, varsA, varsO>>

\* buffer_init(&buf); on failure PyErr_SetFromErrno and return NULL, both
\* without the GIL: the interpreter either takes the error or crashes
HTMLRenderer_parse_init(c, malloc_ok, survives) ==
    /\ rpc[c] = "unblocked"
    /\ buf' = [buf EXCEPT ![c] = buffer_init(buf[c], malloc_ok).buf]
    /\ IF buffer_init(buf[c], malloc_ok).ret < 0
       THEN /\ rerr' = [rerr EXCEPT ![c] = Exc("OSError", "bridge", 0)]
            /\ rpc' = [rpc EXCEPT ![c] = IF survives THEN "returned" ELSE "crashed"]
       ELSE /\ rerr' = rerr
            /\ rpc' = [rpc EXCEPT ![c] = "md_html"]
    /\ UNCHANGED <<self, gil, rinput, chunks, appendrc, sts, rret, varsP, varsA, varsO>>

\* md_html hands one chunk to the output callback; the callback drops
\* buffer_append's return value, appendrc only records it
HTMLRenderer_parse_callback(c, output, reallocs) ==
    /\ rpc[c] = "md_html"
    /\ buf' = [buf EXCEPT ![c] = buffer_append(buf[c], output, reallocs).buf]
    /\ chunks' = [chunks EXCEPT ![c] = Append(chunks[c], output)]
    /\ appendrc' = [appendrc EXCEPT ![c] =
                       Append(appendrc[c], buffer_append(buf[c], output, reallocs).ret)]
    /\ UNCHANGED <<self, gil, rpc, rinput, sts, rerr, rret, varsP, varsA, varsO>>

\* md_html produces its next chunk, of at most max chunks, and calls the
\* output callback with it
md_html_chunk(c, size, reallocs, max) ==
    /\ Len(chunks[c]) < max
    /\ HTMLRenderer_parse_callback(c, Chunk(c, size), reallocs)

\* md_html returns: 0, or -1 when the engine fails
md_html_return(c, s) ==
    /\ rpc[c] = "md_html"
    /\ sts' = [sts EXCEPT ![c] = s]
    /\ rpc' = [rpc EXCEPT ![c] = "md_html_returned"]
    /\ UNCHANGED <<self, gil, rinput, buf, chunks, appendrc, rerr, rret, varsP, varsA, varsO>>

\* Py_BLOCK_THREADS and everything after it
HTMLRenderer_parse_end(c, built) ==
    /\ rpc[c] = "md_html_returned"
    /\ gil = 0
    /\ gil' = c
    /\ rpc' = [rpc EXCEPT ![c] = "returned"]
    /\ IF sts[c] < 0
       THEN /\ rerr' = [rerr EXCEPT ![c] = Exc("ParseError", "bridge", 0)]
            /\ UNCHANGED <<rret, buf>>
       ELSE IF ~built
       THEN /\ rerr' = [rerr EXCEPT ![c] = Exc("MemoryError", "bridge", 0)]
            /\ UNCHANGED <<rret, buf>>
       ELSE /\ rret' = [rret EXCEPT ![c] = BuildResult(buf[c])]
            /\ buf' = [buf EXCEPT ![c] = buffer_free(buf[c])]
            /\ rerr' = rerr
    /\ UNCHANGED <<self, rinput, chunks, appendrc, sts, varsP, varsA, varsO>>

\* back in the interpreter, the thread gives up the GIL it holds
thread_leave(c) ==
    /\ rpc[c] = "returned"
    /\ rpc' = [rpc EXCEPT ![c] = "left"]
    /\ gil' = IF gil = c THEN 0 ELSE gil
    /\ UNCHANGED <<self, rinput, buf, chunks, appendrc, sts, rerr, rret, varsP, varsA, varsO>>

(***************************************************************************)
(* GenericParser_md_attribute as an operation of its own                   *)
(***************************************************************************)
md_attribute_call ==
    /\ apc = "input"
    /\ a_out' = GenericParser_md_attribute(attr, a_is_bytes, nomem_at)
    /\ apc' = "done"
    /\ UNCHANGED <<attr, a_is_bytes, nomem_at, varsP, varsR, varsO>>

\* The attributes md4c hands over: offsets start at 0, do not decrease and
\* end at size.
OffsetArrays(size) ==
    {o \in UNION {[1..n -> 0..size] : n \in 1..(MaxSubstrs + 1)} :
        /\ o[1] = 0
        /\ o[Len(o)] = size
        /\ \A k \in 1..(Len(o) - 1) : o[k] <= o[k + 1]}

AttrTexts == UNION {[1..n -> AttrBytes] : n \in 0..MaxAttrSize}

\* text input reaches the engine as valid UTF-8 and is cut between characters
CutBetweenChars(a) ==
    \A k \in 1..(Len(a.substr_offsets) - 1) :
        Utf8Decode(SubSeq(a.text, a.substr_offsets[k] + 1, a.substr_offsets[k + 1])).ok

(***************************************************************************)
(* The argument construction of one C callback as an operation of its own: *)
(* the first half of GenericParser_block, _span and _text.                 *)
(***************************************************************************)
build_block_arglist ==
    /\ epc = "input"
    /\ ev_in.fam = "block"
    /\ arglist' = GenericParser_block_arglist(ev_in.type, ev_in.detail, e_is_bytes, e_alloc_ok)
    /\ twin_arglist' = GenericParser_block_arglist(ev_in.type, ev_in.detail, ~e_is_bytes,
                                                   e_alloc_ok)
    /\ epc' = "done"
    /\ UNCHANGED <<ev_in, e_is_bytes, e_alloc_ok, varsP, varsR, varsA, varsF, varsL, varsH>>

build_span_arglist ==
    /\ epc = "input"
    /\ ev_in.fam = "span"
    /\ arglist' = GenericParser_span_arglist(ev_in.type, ev_in.detail, e_is_bytes, e_alloc_ok)
    /\ twin_arglist' = GenericParser_span_arglist(ev_in.type, ev_in.detail, ~e_is_bytes,
                                                  e_alloc_ok)
    /\ epc' = "done"
    /\ UNCHANGED <<ev_in, e_is_bytes, e_alloc_ok, varsP, varsR, varsA, varsF, varsL, varsH>>

build_text_arglist ==
    /\ epc = "input"
    /\ ev_in.fam = "text"
    /\ arglist' = GenericParser_text_arglist(ev_in.type, ev_in.text, e_is_bytes, e_alloc_ok)
    /\ twin_arglist' = GenericParser_text_arglist(ev_in.type, ev_in.text, ~e_is_bytes,
                                                  e_alloc_ok)
    /\ epc' = "done"
    /\ UNCHANGED <<ev_in, e_is_bytes, e_alloc_ok, varsP, varsR, varsA, varsF, varsL, varsH>>

(***************************************************************************)
(* GenericParser_init and HTMLRenderer_init: the option keywords.  A mask  *)
(* is the set of its bits, |= is union.  OTHER is a bit no keyword names.  *)
(***************************************************************************)
ParserKeywords ==
    <<"collapse_whitespace", "permissive_atx_headers", "permissive_url_autolinks",
      "permissive_email_autolinks", "no_indented_code_blocks", "no_html_blocks",
      "no_html_spans", "tables", "strikethrough", "permissive_www_autolinks",
      "tasklists", "latex_math_spans", "wikilinks", "underline",
      "permissive_autolinks", "no_html", "dialect_github">>

RendererKeywords == <<"debug", "verbatim_entities", "skip_utf8_bom", "xhtml">>

MD_FLAG_PERMISSIVEAUTOLINKS ==
    {"PERMISSIVEURLAUTOLINKS", "PERMISSIVEEMAILAUTOLINKS", "PERMISSIVEWWWAUTOLINKS"}

MD_FLAG_NOHTML == {"NOHTMLBLOCKS", "NOHTMLSPANS"}

MD_DIALECT_GITHUB ==
    MD_FLAG_PERMISSIVEAUTOLINKS \cup {"TABLES", "STRIKETHROUGH", "TASKLISTS"}

\* the constant each keyword's if statement ORs in
FlagOf(keyword) ==
    CASE keyword = "collapse_whitespace" -> {"COLLAPSEWHITESPACE"}
      [] keyword = "permissive_atx_headers" -> {"PERMISSIVEATXHEADERS"}
      [] keyword = "permissive_url_autolinks" -> {"PERMISSIVEURLAUTOLINKS"}
      [] keyword = "permissive_email_autolinks" -> {"PERMISSIVEEMAILAUTOLINKS"}
      [] keyword = "no_indented_code_blocks" -> {"NOINDENTEDCODEBLOCKS"}
      [] keyword = "no_html_blocks" -> {"NOHTMLBLOCKS"}
      [] keyword = "no_html_spans" -> {"NOHTMLSPANS"}
      [] keyword = "tables" -> {"TABLES"}
      [] keyword = "strikethrough" -> {"STRIKETHROUGH"}
      [] keyword = "permissive_www_autolinks" -> {"PERMISSIVEWWWAUTOLINKS"}
      [] keyword = "tasklists" -> {"TASKLISTS"}
      [] keyword = "latex_math_spans" -> {"LATEXMATHSPANS"}
      [] keyword = "wikilinks" -> {"WIKILINKS"}
      [] keyword = "underline" -> {"UNDERLINE"}
      [] keyword = "permissive_autolinks" -> MD_FLAG_PERMISSIVEAUTOLINKS
      [] keyword = "no_html" -> MD_FLAG_NOHTML
      [] keyword = "dialect_github" -> MD_DIALECT_GITHUB
      [] keyword = "debug" -> {"DEBUG"}
      [] keyword = "verbatim_entities" -> {"VERBATIM_ENTITIES"}
      [] keyword = "skip_utf8_bom" -> {"SKIP_UTF8_BOM"}
      [] keyword = "xhtml" -> {"XHTML"}

RECURSIVE OrKeywords_false_clears(_, _, _)
OrKeywords_false_clears(flags, keywords, true_keywords) ==
    IF keywords = <<>> THEN flags
    ELSE OrKeywords_false_clears(IF Head(keywords) \in true_keywords
                                 THEN flags \cup FlagOf(Head(keywords))
                                 ELSE flags \ FlagOf(Head(keywords)),
                                 Tail(keywords), true_keywords)

\* the chain of "if (keyword) flags |= FLAG;" in the order of the code
RECURSIVE OrKeywords(_, _, _)
OrKeywords(flags, keywords, true_keywords) ==
    IF keywords = <<>> THEN flags
    ELSE OrKeywords(IF Head(keywords) \in true_keywords
                    THEN flags \cup FlagOf(Head(keywords))
                    ELSE flags,
                    Tail(keywords), true_keywords)

GenericParser_init ==
    /\ fpc = "input"
    /\ ctor = "GenericParser"
    /\ gp_self' = [parser_flags |-> OrKeywords(kwds.parser_flags, ParserKeywords, kwds.true)]
    /\ fpc' = "done"
    /\ UNCHANGED <<ctor, kwds, varsP, varsR, varsA, varsE, varsL, varsH>>

HTMLRenderer_init ==
    /\ fpc = "input"
    /\ ctor = "HTMLRenderer"
    /\ self' = [parser_flags |-> OrKeywords(kwds.parser_flags, ParserKeywords, kwds.true),
                renderer_flags |-> OrKeywords(kwds.renderer_flags, RendererKeywords,
                                              kwds.true)]
    /\ fpc' = "done"
    /\ UNCHANGED <<ctor, kwds, gp_self, gil, rpc, rinput, buf, chunks, appendrc, sts, rerr,
                   rret, varsP, varsA, varsE, varsL, varsH>>

Range(seq) == {seq[i] : i \in 1..Len(seq)}

RawParserMasks ==
    {{}, {"TABLES"}, {"NOHTMLBLOCKS", "OTHER"}, MD_DIALECT_GITHUB}

RawRendererMasks == {{}, {"XHTML"}, {"DEBUG", "OTHER"}}

\* the keyword arguments: every keyword not in the set is false (its default)
KeywordSets(keywords) ==
    {k \in SUBSET Range(keywords) : Cardinality(k) <= MaxTrueKeywords}

(***************************************************************************)
(* generic_parser.c: lookup_entity.  Characters are their codes: & 38,     *)
(* # 35, ; 59, x 120, X 88, 0-9 48-57, A-F 65-70, a-f 97-102.  codepoint   *)
(* is a Py_UCS4, 32 bits unsigned, kept as two 16-bit halves.              *)
(***************************************************************************)
char_to_int(c) ==
    IF c \in 49..57 THEN c - 48
    ELSE IF c \in 65..70 THEN c - 55
    ELSE IF c \in 97..102 THEN c - 87
    ELSE 0

\* base * codepoint + digit in 32 bits
MulAdd(base, codepoint, digit) ==
    LET low == base * codepoint.lo + digit
    IN  [hi |-> (base * codepoint.hi + low \div 65536) % 65536, lo |-> low % 65536]

\* the loops: i runs over the C indices from..entity_size - 2
RECURSIVE EntityLoop(_, _, _, _)
EntityLoop(base, e, i, codepoint) ==
    IF i >= Len(e) - 1 THEN codepoint
    ELSE EntityLoop(base, e, i + 1, MulAdd(base, codepoint, char_to_int(e[i + 1])))

\* PyUnicode_New(n, maxchar) fails above U+10FFFF; the result is the str of
\* the given code points
PyUnicode_New(codepoints, maxchar) ==
    IF maxchar.hi > 16
    THEN [ret |-> "NULL", val |-> <<>>]
    ELSE [ret |-> "str", val |-> [i \in 1..Len(codepoints) |->
                                     codepoints[i].hi * 65536 + codepoints[i].lo]]

\* entity_lookup: md4c's table of named entities, here the names that can
\* be spelled with the characters & g t n G ; (one of two code points)
entity_lookup(e) ==
    CASE e = <<38, 103, 116, 59>> -> <<U32(62), U32(0)>>
      [] e = <<38, 103, 103, 59>> -> <<U32(8811), U32(0)>>
      [] e = <<38, 103, 103, 103, 59>> -> <<U32(8921), U32(0)>>
      [] e = <<38, 110, 71, 116, 59>> -> <<U32(8811), U32(8402)>>
      [] OTHER -> <<>>

ArgUnmodified(e) == [ret |-> "str", val |-> Utf8Decode(e).val]

NumericEntity(e) ==
    LET codepoint == IF e[3] \in {120, 88}
                     THEN EntityLoop(16, e, 3, U32(0))
                     ELSE EntityLoop(10, e, 2, U32(0))
    IN  PyUnicode_New(<<codepoint>>, codepoint)

NamedEntity(e) ==
    LET ent == entity_lookup(e)
    IN  IF ent = <<>> THEN ArgUnmodified(e)
        ELSE IF ent[2] = U32(0) THEN PyUnicode_New(<<ent[1]>>, ent[1])
        ELSE PyUnicode_New(ent, IF ent[1].hi > ent[2].hi
                                   \/ (ent[1].hi = ent[2].hi /\ ent[1].lo > ent[2].lo)
                                THEN ent[1] ELSE ent[2])

lookup_entity ==
    /\ lpc = "input"
    /\ l_result' = IF Len(entity) > 3 /\ entity[2] = 35
                   THEN NumericEntity(entity)
                   ELSE NamedEntity(entity)
    /\ lpc' = "done"
    /\ UNCHANGED <<entity, varsP, varsR, varsA, varsE, varsF, varsH>>

EntityChars == {38, 35, 120, 49, 103, 59}

EntityInputs ==
    UNION {[1..n -> EntityChars] : n \in 0..MaxEntityLen}
    \cup {<<38, 103, 116, 59>>, <<38, 110, 71, 116, 59>>, <<38, 35, 120, 49, 70, 54, 48, 48, 59>>}
    \cup {<<38, 35, 88, 49, 48, 70, 102, 70, 102, 59>>, <<38, 35, 49, 49, 49, 52, 49, 49, 50, 59>>,
          <<38, 35, 48, 48, 48, 48, 48, 48, 48, 48, 54, 53, 59>>,
          <<38, 35, 120, 49, 48, 48, 48, 48, 48, 48, 52, 49, 59>>}

\* The events md4c hands over.  Characters are their codes; a block or span
\* without a detail structure has an empty one.
Attr(text, types, offsets) ==
    [text_null |-> FALSE, text |-> text, size |-> Len(text),
     substr_types |-> types, substr_offsets |-> offsets]

DetailAttrs ==
    {NullAttr,
     Attr(<<>>, <<>>, <<0>>),
     Attr(<<97>>, <<"NORMAL">>, <<0, 1>>),
     Attr(<<97, 195, 169>>, <<"NORMAL", "ENTITY">>, <<0, 1, 3>>),
     Attr(<<195>>, <<"NORMAL">>, <<0, 1>>)}

EventTexts == {<<>>, <<97>>, <<97, 98>>, <<195, 169>>, <<97, 195, 169>>, <<169>>}

Unsigneds == {U32(0), U32(1), U32(7), [hi |-> 32768, lo |-> 0], [hi |-> 65535, lo |-> 65535]}

BlockEvents ==
    {[fam |-> "block", type |-> t, detail |-> EmptyDict] : t \in {"DOC", "QUOTE", "P", "HR"}}
    \cup {[fam |-> "block", type |-> "UL", detail |-> [is_tight |-> tight, mark |-> mark]] :
             tight \in {0, 1}, mark \in {45, 42}}
    \cup {[fam |-> "block", type |-> "OL",
           detail |-> [start |-> start, is_tight |-> tight, mark_delimiter |-> mark]] :
             start \in Unsigneds, tight \in {0, 1}, mark \in {46, 41}}
    \cup {[fam |-> "block", type |-> "LI",
           detail |-> [is_task |-> task, task_mark |-> mark, task_mark_offset |-> off]] :
             task \in {0, 1}, mark \in {0, 32, 120, 88}, off \in {U32(0), U32(2)}}
    \cup {[fam |-> "block", type |-> "H", detail |-> [level |-> U32(level)]] :
             level \in {1, 2, 6}}
    \cup {[fam |-> "block", type |-> "CODE",
           detail |-> [info |-> info, lang |-> lang, fence_char |-> fence]] :
             info \in DetailAttrs, lang \in DetailAttrs, fence \in {0, 96, 126}}
    \cup {[fam |-> "block", type |-> "TABLE",
           detail |-> [col_count |-> U32(cols), head_row_count |-> U32(1),
                       body_row_count |-> U32(rows)]] :
             cols \in {1, 3}, rows \in {0, 1, 2}}
    \cup {[fam |-> "block", type |-> t, detail |-> [align |-> align]] :
             t \in {"TH", "TD"}, align \in 0..3}

SpanEvents ==
    {[fam |-> "span", type |-> t, detail |-> EmptyDict] : t \in {"EM", "STRONG", "CODE"}}
    \cup {[fam |-> "span", type |-> "A", detail |-> [href |-> href, title |-> title]] :
             href \in DetailAttrs, title \in DetailAttrs}
    \cup {[fam |-> "span", type |-> "IMG", detail |-> [src |-> src, title |-> title]] :
             src \in DetailAttrs, title \in DetailAttrs}
    \cup {[fam |-> "span", type |-> "WIKILINK", detail |-> [target |-> target]] :
             target \in DetailAttrs}

TextEvents ==
    {[fam |-> "text", type |-> t, text |-> text] :
        t \in {"NORMAL", "ENTITY", "CODE"}, text \in EventTexts}

\* the texts of an event: its text, or the texts of its attributes
EventPayloads(ev) ==
    IF ev.fam = "text" THEN {ev.text}
    ELSE {ev.detail[k].text : k \in DOMAIN ev.detail \cap {"info", "lang", "href", "title",
                                                            "src", "target"}}

\* a str input reaches the engine as UTF-8
ValidUtf8(ev) == \A t \in EventPayloads(ev) : Utf8Decode(t).ok

(***************************************************************************)
(* HTMLRenderer.parse of src/pymd4c.c: the output callback stores the      *)
(* pointer and size it is given in the renderer object, under a per-object *)
(* mutex.  A pointer is the call whose engine produced the chunk and the   *)
(* chunk's number.                                                         *)
(***************************************************************************)
OldChunkSizes == {1, 2}

NullPointer == [call |-> 0, chunk |-> 0]

OldNoResult == [kind |-> "NULL", output |-> NullPointer, out_size |-> 0]

\* a result built from the locals stored before the mutex was unlocked
OldBuildResult_from_locals(c) ==
    [kind |-> "str", output |-> old_locals[c].output, out_size |-> old_locals[c].out_size]

\* Py_BuildValue("s#", self->output, self->out_size): the pointer has been
\* read, the size is read now
OldBuildResult(c) ==
    [kind |-> "str", output |-> old_arg[c], out_size |-> old_self.out_size]

\* the interpreter runs the call's thread, which holds the GIL
old_thread_call(c) ==
    /\ old_pc[c] = "idle"
    /\ old_gil = 0
    /\ old_gil' = c
    /\ old_pc' = [old_pc EXCEPT ![c] = "called"]
    /\ UNCHANGED <<old_self, old_nchunks, old_locals, old_arg, old_sts, old_err, old_ret,
                   varsP, varsR, varsA, varsE, varsF, varsL>>

\* PyArg_ParseTuple(args, "s#", ...), then Py_UNBLOCK_THREADS
Old_HTMLRenderer_parse_begin(c, input_type) ==
    /\ old_pc[c] = "called"
    /\ IF input_type = "other"
       THEN /\ old_err' = [old_err EXCEPT ![c] = Exc("TypeError", "bridge", 0)]
            /\ old_pc' = [old_pc EXCEPT ![c] = "returned"]
            /\ old_gil' = old_gil
       ELSE /\ old_err' = old_err
            /\ old_pc' = [old_pc EXCEPT ![c] = "unblocked"]
            /\ old_gil' = 0
    /\ UNCHANGED <<old_self, old_nchunks, old_locals, old_arg, old_sts, old_ret,
                   varsP, varsR, varsA, varsE, varsF, varsL>>

\* pthread_mutex_lock(&self->out_mutex): the call waits until the mutex is
\* free; on an error Py_BLOCK_THREADS, OSError, return NULL
Old_HTMLRenderer_parse_lock(c, mutex_sts) ==
    /\ old_pc[c] = "unblocked"
    /\ IF mutex_sts = 0
       THEN /\ old_self.out_mutex = 0
            /\ old_self' = [old_self EXCEPT !.out_mutex = c]
            /\ old_pc' = [old_pc EXCEPT ![c] = "md_html"]
            /\ UNCHANGED <<old_gil, old_err>>
       ELSE /\ old_gil = 0
            /\ old_gil' = c
            /\ old_err' = [old_err EXCEPT ![c] = Exc("OSError", "bridge", 0)]
            /\ old_pc' = [old_pc EXCEPT ![c] = "returned"]
            /\ old_self' = old_self
    /\ UNCHANGED <<old_nchunks, old_locals, old_arg, old_sts, old_ret,
                   varsP, varsR, varsA, varsE, varsF, varsL>>

\* HTMLRenderer_parse_callback, first statement: self->output = output
Old_HTMLRenderer_parse_callback_output(c) ==
    /\ old_pc[c] = "md_html"
    /\ old_nchunks[c] < MaxOldChunks
    /\ old_nchunks' = [old_nchunks EXCEPT ![c] = old_nchunks[c] + 1]
    /\ old_self' = [old_self EXCEPT !.output = [call |-> c, chunk |-> old_nchunks[c] + 1]]
    /\ old_pc' = [old_pc EXCEPT ![c] = "callback"]
    /\ UNCHANGED <<old_gil, old_locals, old_arg, old_sts, old_err, old_ret,
                   varsP, varsR, varsA, varsE, varsF, varsL>>

\* HTMLRenderer_parse_callback, second statement: self->out_size = out_size
Old_HTMLRenderer_parse_callback_out_size(c, out_size) ==
    /\ old_pc[c] = "callback"
    /\ old_self' = [old_self EXCEPT !.out_size = out_size]
    /\ old_pc' = [old_pc EXCEPT ![c] = "md_html"]
    /\ UNCHANGED <<old_gil, old_nchunks, old_locals, old_arg, old_sts, old_err, old_ret,
                   varsP, varsR, varsA, varsE, varsF, varsL>>

\* md_html returns 0 or -1; "Store values before unlocking mutex"
old_md_html_return(c, s) ==
    /\ old_pc[c] = "md_html"
    /\ old_sts' = [old_sts EXCEPT ![c] = s]
    /\ old_locals' = [old_locals EXCEPT ![c] = [output |-> old_self.output,
                                                out_size |-> old_self.out_size]]
    /\ old_pc' = [old_pc EXCEPT ![c] = "md_html_returned"]
    /\ UNCHANGED <<old_self, old_gil, old_nchunks, old_arg, old_err, old_ret,
                   varsP, varsR, varsA, varsE, varsF, varsL>>

\* pthread_mutex_unlock(&self->out_mutex); on an error Py_BLOCK_THREADS,
\* OSError, return NULL
Old_HTMLRenderer_parse_unlock(c, mutex_sts) ==
    /\ old_pc[c] = "md_html_returned"
    /\ IF mutex_sts = 0
       THEN /\ old_self' = [old_self EXCEPT !.out_mutex = 0]
            /\ old_pc' = [old_pc EXCEPT ![c] = "unlocked"]
            /\ UNCHANGED <<old_gil, old_err>>
       ELSE /\ old_gil = 0
            /\ old_gil' = c
            /\ old_err' = [old_err EXCEPT ![c] = Exc("OSError", "bridge", 0)]
            /\ old_pc' = [old_pc EXCEPT ![c] = "returned"]
            /\ old_self' = old_self
    /\ UNCHANGED <<old_nchunks, old_locals, old_arg, old_sts, old_ret,
                   varsP, varsR, varsA, varsE, varsF, varsL>>

\* Py_BLOCK_THREADS, the test of sts, and the read of self->output for
\* Py_BuildValue
Old_HTMLRenderer_parse_read(c) ==
    /\ old_pc[c] = "unlocked"
    /\ old_gil = 0
    /\ old_gil' = c
    /\ IF old_sts[c] < 0
       THEN /\ old_err' = [old_err EXCEPT ![c] = Exc("ParseError", "bridge", 0)]
            /\ old_pc' = [old_pc EXCEPT ![c] = "returned"]
            /\ old_arg' = old_arg
       ELSE /\ old_arg' = [old_arg EXCEPT ![c] = old_self.output]
            /\ old_pc' = [old_pc EXCEPT ![c] = "building"]
            /\ old_err' = old_err
    /\ UNCHANGED <<old_self, old_nchunks, old_locals, old_sts, old_ret,
                   varsP, varsR, varsA, varsE, varsF, varsL>>

\* the read of self->out_size, Py_BuildValue and the return
Old_HTMLRenderer_parse_end(c, built) ==
    /\ old_pc[c] = "building"
    /\ old_pc' = [old_pc EXCEPT ![c] = "returned"]
    /\ IF ~built
       THEN /\ old_err' = [old_err EXCEPT ![c] = Exc("MemoryError", "bridge", 0)]
            /\ old_ret' = old_ret
       ELSE /\ old_ret' = [old_ret EXCEPT ![c] = OldBuildResult(c)]
            /\ old_err' = old_err
    /\ UNCHANGED <<old_self, old_gil, old_nchunks, old_locals, old_arg, old_sts,
                   varsP, varsR, varsA, varsE, varsF, varsL>>

\* back in the interpreter, the thread gives up the GIL
old_thread_leave(c) ==
    /\ old_pc[c] = "returned"
    /\ old_gil = c
    /\ old_gil' = 0
    /\ old_pc' = [old_pc EXCEPT ![c] = "left"]
    /\ UNCHANGED <<old_self, old_nchunks, old_locals, old_arg, old_sts, old_err, old_ret,
                   varsP, varsR, varsA, varsE, varsF, varsL>>

(***************************************************************************)
(* Initial states                                                          *)
(***************************************************************************)
InitParse ==
    /\ pc = "call"
    /\ input_obj = "unset"
    /\ handler_result = "unset"
    /\ cb_data = [is_bytes |-> FALSE, callable |-> <<>>]
    /\ stack = <<>>
    /\ events = <<>>
    /\ calls = <<>>
    /\ raised = NoExc
    /\ pyerr = NoExc
    /\ result = 0
    /\ retval = "unset"

InitRender ==
    /\ self = [parser_flags |-> {}, renderer_flags |-> {}]
    /\ gil = 0
    /\ rpc = [c \in Calls |-> "idle"]
    /\ rinput = [c \in Calls |-> "unset"]
    /\ buf = [c \in Calls |-> NoBuffer]
    /\ chunks = [c \in Calls |-> <<>>]
    /\ appendrc = [c \in Calls |-> <<>>]
    /\ sts = [c \in Calls |-> 0]
    /\ rerr = [c \in Calls |-> NoExc]
    /\ rret = [c \in Calls |-> NoResult]

\* the object as tp_alloc leaves it (zeroed) and HTMLRenderer_init's mutex
InitOld ==
    /\ old_self = [output |-> NullPointer, out_size |-> 0, out_mutex |-> 0]
    /\ old_gil = 0
    /\ old_pc = [c \in Calls |-> "idle"]
    /\ old_nchunks = [c \in Calls |-> 0]
    /\ old_locals = [c \in Calls |-> [output |-> NullPointer, out_size |-> 0]]
    /\ old_arg = [c \in Calls |-> NullPointer]
    /\ old_sts = [c \in Calls |-> 0]
    /\ old_err = [c \in Calls |-> NoExc]
    /\ old_ret = [c \in Calls |-> OldNoResult]

InitAttrIdle ==
    /\ apc = "idle"
    /\ attr = NullAttr
    /\ a_is_bytes = FALSE
    /\ nomem_at = 0
    /\ a_out = [ret |-> "unset", list |-> <<>>, read |-> 0]

InitEventIdle ==
    /\ epc = "idle"
    /\ ev_in = [fam |-> "none"]
    /\ e_is_bytes = FALSE
    /\ e_alloc_ok = TRUE
    /\ arglist = NullArglist
    /\ twin_arglist = NullArglist

InitFlagsIdle ==
    /\ fpc = "idle"
    /\ ctor = "none"
    /\ kwds = [parser_flags |-> {}, renderer_flags |-> {}, true |-> {}]
    /\ gp_self = [parser_flags |-> {}]

InitEntityIdle ==
    /\ lpc = "idle"
    /\ entity = <<>>
    /\ l_result = [ret |-> "unset", val |-> <<>>]

Init ==
    /\ InitParse
    /\ InitRender
    /\ InitOld
    /\ InitAttrIdle
    /\ InitEventIdle
    /\ InitFlagsIdle
    /\ InitEntityIdle

(***************************************************************************)
(* GenericParser.parse: one call                                           *)
(***************************************************************************)
Next ==
    \/ \E it \in InputTypes, c \in [1..5 -> BOOLEAN] : GenericParser_parse_begin(it, c)
    \/ \E t \in {"DOC"} \cup NestedBlockTypes, b \in BOOLEAN, o \in HandlerOutcomes :
          GenericParser_enter_block(t, b, o)
    \/ \E b \in BOOLEAN, o \in HandlerOutcomes : GenericParser_leave_block(b, o)
    \/ \E t \in SpanTypes, b \in BOOLEAN, o \in HandlerOutcomes :
          GenericParser_enter_span(t, b, o)
    \/ \E b \in BOOLEAN, o \in HandlerOutcomes : GenericParser_leave_span(b, o)
    \/ \E t \in TextTypes, b \in BOOLEAN, o \in HandlerOutcomes :
          GenericParser_text(t, b, o)
    \/ md_parse_done
    \/ md_parse_fail
    \/ GenericParser_parse_end

Spec == Init /\ [][Next]_vars

(***************************************************************************)
(* HTMLRenderer.parse: one call                                            *)
(***************************************************************************)
NextRender ==
    \/ thread_call(1)
    \/ \E it \in InputTypes : HTMLRenderer_parse_begin(1, it)
    \/ \E ok \in BOOLEAN, sv \in BOOLEAN : HTMLRenderer_parse_init(1, ok, sv)
    \/ \E size \in ChunkSizes, r \in 0..MaxReallocs : md_html_chunk(1, size, r, MaxChunks)
    \/ \E s \in {0, -1} : md_html_return(1, s)
    \/ \E b \in BOOLEAN : HTMLRenderer_parse_end(1, b)
    \/ thread_leave(1)

SpecRender == Init /\ [][NextRender]_vars

(***************************************************************************)
(* HTMLRenderer.parse of src/pymd4c.c: two calls on the same object        *)
(***************************************************************************)
NextOld ==
    \/ \E c \in Calls : old_thread_call(c)
    \/ \E c \in Calls, it \in InputTypes : Old_HTMLRenderer_parse_begin(c, it)
    \/ \E c \in Calls, m \in {0, 1} : Old_HTMLRenderer_parse_lock(c, m)
    \/ \E c \in Calls : Old_HTMLRenderer_parse_callback_output(c)
    \/ \E c \in Calls, n \in OldChunkSizes : Old_HTMLRenderer_parse_callback_out_size(c, n)
    \/ \E c \in Calls, s \in {0, -1} : old_md_html_return(c, s)
    \/ \E c \in Calls, m \in {0, 1} : Old_HTMLRenderer_parse_unlock(c, m)
    \/ \E c \in Calls : Old_HTMLRenderer_parse_read(c)
    \/ \E c \in Calls, b \in BOOLEAN : Old_HTMLRenderer_parse_end(c, b)
    \/ \E c \in Calls : old_thread_leave(c)

SpecOld == Init /\ [][NextOld]_vars

(***************************************************************************)
(* HTMLRenderer.parse: two calls on the same object, in two threads        *)
(***************************************************************************)
NextConc ==
    \/ \E c \in Calls : thread_call(c)
    \/ \E c \in Calls, it \in InputTypes : HTMLRenderer_parse_begin(c, it)
    \/ \E c \in Calls, ok \in BOOLEAN, sv \in BOOLEAN : HTMLRenderer_parse_init(c, ok, sv)
    \/ \E c \in Calls, size \in ConcChunkSizes, r \in 0..MaxReallocs :
          md_html_chunk(c, size, r, MaxConcChunks)
    \/ \E c \in Calls, s \in {0, -1} : md_html_return(c, s)
    \/ \E c \in Calls, b \in BOOLEAN : HTMLRenderer_parse_end(c, b)
    \/ \E c \in Calls : thread_leave(c)

SpecConc == Init /\ [][NextConc]_vars

(***************************************************************************)
(* GenericParser_md_attribute on every attribute within the bounds         *)
(***************************************************************************)
InitAttr ==
    /\ InitParse
    /\ InitRender
    /\ InitOld
    /\ InitEntityIdle
    /\ InitEventIdle
    /\ InitFlagsIdle
    /\ apc = "input"
    /\ a_is_bytes \in BOOLEAN
    /\ nomem_at \in 0..(MaxSubstrs + 1)
    /\ \/ attr = NullAttr
       \/ \E t \in AttrTexts : \E o \in OffsetArrays(Len(t)) :
             \E ty \in [1..(Len(o) - 1) -> AttrTextTypes] :
                /\ attr = [text_null |-> FALSE, text |-> t, size |-> Len(t),
                           substr_types |-> ty, substr_offsets |-> o]
                /\ a_is_bytes \/ CutBetweenChars(attr)
    /\ a_out = [ret |-> "unset", list |-> <<>>, read |-> 0]

NextAttr == md_attribute_call

SpecAttr == InitAttr /\ [][NextAttr]_vars

(***************************************************************************)
(* The argument construction on every event within the bounds              *)
(***************************************************************************)
InitEvent ==
    /\ InitParse
    /\ InitRender
    /\ InitOld
    /\ InitEntityIdle
    /\ InitAttrIdle
    /\ InitFlagsIdle
    /\ epc = "input"
    /\ ev_in \in BlockEvents \cup SpanEvents \cup TextEvents
    /\ e_is_bytes \in BOOLEAN
    /\ e_is_bytes \/ ValidUtf8(ev_in)
    /\ e_alloc_ok \in BOOLEAN
    /\ arglist = NullArglist
    /\ twin_arglist = NullArglist

NextEvent ==
    \/ build_block_arglist
    \/ build_span_arglist
    \/ build_text_arglist

SpecEvent == InitEvent /\ [][NextEvent]_vars

(***************************************************************************)
(* The constructors on raw masks and keyword arguments within the bounds   *)
(***************************************************************************)
InitFlags ==
    /\ InitParse
    /\ InitRender
    /\ InitOld
    /\ InitEntityIdle
    /\ InitAttrIdle
    /\ InitEventIdle
    /\ fpc = "input"
    /\ gp_self = [parser_flags |-> {}]
    /\ \/ /\ ctor = "GenericParser"
          /\ \E pf \in RawParserMasks, k \in KeywordSets(ParserKeywords) :
                kwds = [parser_flags |-> pf, renderer_flags |-> {}, true |-> k]
       \/ /\ ctor = "HTMLRenderer"
          /\ \E pf \in RawParserMasks, rf \in RawRendererMasks,
                k \in KeywordSets(ParserKeywords \o RendererKeywords) :
                kwds = [parser_flags |-> pf, renderer_flags |-> rf, true |-> k]

NextFlags ==
    \/ GenericParser_init
    \/ HTMLRenderer_init

SpecFlags == InitFlags /\ [][NextFlags]_vars

(***************************************************************************)
(* lookup_entity on every string within the bounds                         *)
(***************************************************************************)
InitEntity ==
    /\ InitParse
    /\ InitRender
    /\ InitOld
    /\ InitAttrIdle
    /\ InitEventIdle
    /\ InitFlagsIdle
    /\ lpc = "input"
    /\ entity \in EntityInputs
    /\ l_result = [ret |-> "unset", val |-> <<>>]

NextEntity == lookup_entity

SpecEntity == InitEntity /\ [][NextEntity]_vars

(***************************************************************************)
(* Properties                                                              *)
(***************************************************************************)
RECURSIVE Concat(_)
Concat(ss) == IF ss = <<>> THEN <<>> ELSE ss[1] \o Concat(Tail(ss))

RECURSIVE SumLen(_)
SumLen(ss) == IF ss = <<>> THEN 0 ELSE Len(ss[1]) + SumLen(Tail(ss))

ParseErrorExc == Exc("ParseError", "bridge", 0)

\* C1: once the handler called for the k-th event has raised StopParsing,
\* there are exactly k handler invocations and k engine events, the engine
\* has stopped, and parse() returns None with no exception pending.
ThmStopParsing ==
    raised.type = "StopParsing" =>
        /\ Len(calls) = raised.at
        /\ Len(events) = raised.at
        /\ pc \in {"md_parse_returned", "returned"}
        /\ pc = "returned" => (retval = "None" /\ pyerr = NoExc)

WitStopParsing ==
    /\ pc = "returned"
    /\ raised.type = "StopParsing"
    /\ raised.at = 4
    /\ Len(calls) = 4
    /\ calls[4].cb = "leave_span_callback"
    /\ retval = "None"

\* C2: once the handler called for the k-th event has raised an exception
\* other than StopParsing, there are exactly k handler invocations and
\* parse() returns NULL with that very exception pending.
ThmHandlerException ==
    raised.type \notin {"none", "StopParsing"} =>
        /\ Len(calls) = raised.at
        /\ pc \in {"md_parse_returned", "returned"}
        /\ pc = "returned" => (retval = "NULL" /\ pyerr = raised)

WitHandlerException ==
    /\ pc = "returned"
    /\ raised = Exc("ParseError", "handler", 3)
    /\ Len(calls) = 3
    /\ pyerr = raised
    /\ retval = "NULL"

\* C3: when md_parse has returned non-zero with no exception pending,
\* parse() sets ParseError and returns NULL; when md_parse has returned 0,
\* parse() returns None with no exception pending.
ThmEngineFailure ==
    [][pc = "md_parse_returned" =>
          /\ (result /= 0 /\ ~PyErr_Occurred(pyerr)) =>
                (pyerr' = ParseErrorExc /\ retval' = "NULL")
          /\ result = 0 => (retval' = "None" /\ ~PyErr_Occurred(pyerr'))]_vars

WitEngineFailure ==
    /\ pc = "returned"
    /\ raised = NoExc
    /\ Len(calls) >= 2
    /\ Len(calls) = Len(events)
    /\ pyerr = ParseErrorExc
    /\ retval = "NULL"

\* C4: when md_parse has returned non-zero and an exception is pending,
\* the exception alone decides: StopParsing is cleared and parse() returns
\* None, any other exception stays pending unchanged and parse() returns
\* NULL; the bridge's ParseError is never set.
ThmHandlerPrecedence ==
    [][(pc = "md_parse_returned" /\ result /= 0 /\ PyErr_Occurred(pyerr)) =>
          /\ pyerr' /= ParseErrorExc
          /\ IF pyerr.type = "StopParsing"
             THEN pyerr' = NoExc /\ retval' = "None"
             ELSE pyerr' = pyerr /\ retval' = "NULL"]_vars

WitHandlerPrecedence ==
    /\ pc = "returned"
    /\ result /= 0
    /\ raised.type = "ValueError"
    /\ pyerr = raised
    /\ retval = "NULL"

AllAppended(c) == \A k \in 1..Len(appendrc[c]) : appendrc[c][k] = 0

\* C5: while every buffer_append of a render has succeeded, the buffer's
\* pos is the sum of the chunk sizes and bytes [0, pos) are the chunks in
\* order.
ThmAccumulator ==
    \A c \in Calls :
        (rpc[c] \in {"md_html", "md_html_returned"} /\ AllAppended(c)) =>
            /\ buf[c].pos <= buf[c].len
            /\ buf[c].len = Len(buf[c].data)
            /\ buf[c].pos = SumLen(chunks[c])
            /\ Region(buf[c]) = Concat(chunks[c])

WitAccumulator ==
    /\ rpc[1] = "md_html_returned"
    /\ AllAppended(1)
    /\ Len(chunks[1]) = 3
    /\ Len(chunks[1][1]) = 256
    /\ Len(chunks[1][2]) = 0
    /\ Len(chunks[1][3]) = 600
    /\ buf[1].pos = 856
    /\ buf[1].len = 1024

\* C6: a render in which an append failed ends with an error and returns
\* no output.
CexGrowthFailureIsError ==
    \A c \in Calls :
        (rpc[c] = "returned" /\ ~AllAppended(c)) =>
            (rret[c] = NoResult /\ PyErr_Occurred(rerr[c]))

\* C7: whenever HTMLRenderer.parse has come to its end, with a result or
\* with an error set, the calling thread holds the GIL.
CexLockHeldAtExit ==
    \A c \in Calls : rpc[c] \in {"returned", "crashed"} => gil = c

\* C8: with two calls interleaved on one renderer object, the object is
\* never written and every result returned is the concatenation of the
\* chunks of the call's own engine run.
CexCallLocalOutput ==
    /\ self = [parser_flags |-> {}, renderer_flags |-> {}]
    /\ \A c \in Calls : rret[c] /= NoResult => rret[c].val = Concat(chunks[c])

\* C9: a result has the type of the input: bytes for bytes, str for str.
CexResultTypeIsInputType ==
    \A c \in Calls : rret[c] /= NoResult => rret[c].kind = rinput[c]

StrictOffsets(a) ==
    \A k \in 1..(Len(a.substr_offsets) - 1) : a.substr_offsets[k] < a.substr_offsets[k + 1]

ListVals(list) == Concat([k \in 1..Len(list) |-> list[k][2].val])

\* C10: for an attribute with text and offsets 0 = o_0 < ... < o_N = size,
\* the builder fails only when an allocation fails, and the list it
\* returns has N pairs, the i-th being (substr_types[i], text[o_i : o_i+1]),
\* whose slices concatenate to text[0 : size].
ThmAttributeSlices ==
    (apc = "done" /\ ~attr.text_null /\ StrictOffsets(attr)) =>
        LET N == Len(attr.substr_offsets) - 1
        IN  /\ a_out.ret \in {"list", "NULL"}
            /\ a_out.ret = "NULL" => nomem_at \in 1..(N + 1)
            /\ a_out.ret = "list" =>
                  /\ Len(a_out.list) = N
                  /\ \A i \in 1..N :
                        /\ a_out.list[i][1] = attr.substr_types[i]
                        /\ a_out.list[i][2] =
                              PyText(a_is_bytes,
                                     SubSeq(attr.text, attr.substr_offsets[i] + 1,
                                            attr.substr_offsets[i + 1])).obj
                  /\ ListVals(a_out.list) = PyText(a_is_bytes, attr.text).obj.val

WitAttributeSlices ==
    /\ apc = "done"
    /\ ~a_is_bytes
    /\ attr.text = <<97, 195, 169>>
    /\ attr.substr_offsets = <<0, 1, 3>>
    /\ attr.substr_types = <<"NORMAL", "ENTITY">>
    /\ a_out.ret = "list"
    /\ a_out.list = <<<<"NORMAL", [kind |-> "str", val |-> <<97>>]>>,
                      <<"ENTITY", [kind |-> "str", val |-> <<233>>]>>>>

\* the handler the bridge registers for each of the engine's transitions
CallbackFor(ev) ==
    CASE ev = "enter_block" -> "enter_block_callback"
      [] ev = "leave_block" -> "leave_block_callback"
      [] ev = "enter_span" -> "enter_span_callback"
      [] ev = "leave_span" -> "leave_span_callback"
      [] ev = "text" -> "text_callback"

\* C11: the i-th handler invocation is for the i-th engine event: it is the
\* handler of the event's transition type and gets the event's kind.  Every
\* event has its invocation, except a last one whose arguments could not
\* be allocated, and no event follows a handler that raised.
ThmOneHandlerPerEvent ==
    /\ Len(calls) <= Len(events)
    /\ \A i \in 1..Len(calls) :
          /\ calls[i].cb = CallbackFor(events[i].ev)
          /\ calls[i].type = events[i].type
          /\ calls[i].args.type.val = events[i].type
    /\ Len(calls) < Len(events) =>
          /\ Len(calls) = Len(events) - 1
          /\ pc \in {"md_parse_returned", "returned"}
          /\ raised = NoExc
    /\ raised /= NoExc => Len(events) = raised.at

WitOneHandlerPerEvent ==
    /\ pc = "returned"
    /\ retval = "None"
    /\ raised = NoExc
    /\ Len(calls) = 7
    /\ Len(events) = 7
    /\ calls[3] = [cb |-> "enter_span_callback", type |-> "EM",
                   args |-> [built |-> TRUE, type |-> get_enum_spantype("EM"),
                             detail |-> EmptyDict]]
    /\ calls[4].cb = "text_callback"
    /\ calls[5].cb = "leave_span_callback"
    /\ calls[6].cb = "leave_block_callback"
    /\ calls[6].type = "P"
    /\ calls[7].type = "DOC"

Count(cb, type) ==
    Cardinality({i \in 1..Len(calls) : calls[i].cb = cb /\ calls[i].type = type})

Balanced ==
    /\ \A t \in {"DOC"} \cup NestedBlockTypes :
          Count("enter_block_callback", t) = Count("leave_block_callback", t)
    /\ \A t \in SpanTypes :
          Count("enter_span_callback", t) = Count("leave_span_callback", t)

\* C12, as stated: whenever parse() has returned, the handlers have seen as
\* many enter-block as leave-block events of each kind, and as many
\* enter-span as leave-span events of each kind.
CexBalancedOnReturn == pc = "returned" => Balanced

\* C12, amended: when parse() has returned None and no handler raised (the
\* engine delivered the whole stream), the handlers have seen as many
\* enter-block as leave-block events of each kind, and as many enter-span
\* as leave-span events of each kind.
ThmBalancedOnCompletion ==
    (pc = "returned" /\ retval = "None" /\ raised = NoExc) => Balanced

WitBalancedOnCompletion ==
    /\ pc = "returned"
    /\ retval = "None"
    /\ raised = NoExc
    /\ Len(calls) = 8
    /\ Count("enter_block_callback", "QUOTE") = 1
    /\ Count("leave_block_callback", "QUOTE") = 1
    /\ Count("enter_span_callback", "A") = 1
    /\ Count("leave_span_callback", "A") = 1

\* C16: a step in which a handler returns without raising (whatever it
\* returns: None, False, 0 or another object) leaves the engine running,
\* sets no exception and does not touch the parse result: the next event
\* follows as if the handler had returned nothing.
ThmReturnValueIgnored ==
    [][(pc = "md_parse" /\ Len(calls') = Len(calls) + 1
          /\ handler_result' \in HandlerReturns) =>
          /\ pc' = "md_parse"
          /\ pyerr' = pyerr
          /\ raised' = raised
          /\ result' = result
          /\ retval' = retval]_vars

WitReturnValueIgnored ==
    /\ pc = "returned"
    /\ retval = "None"
    /\ raised = NoExc
    /\ pyerr = NoExc
    /\ handler_result = "False"
    /\ Len(calls) = 6
    /\ Len(events) = 6

AttrKinds(o) ==
    IF o.kind = "list" THEN {o.val[i][2].kind : i \in 1..Len(o.val)} ELSE {}

\* the kinds of the text payload and of the attribute runs of an arglist
PayloadKinds(args) ==
    IF "text" \in DOMAIN args
    THEN {args.text.kind}
    ELSE UNION {AttrKinds(args.detail[k]) : k \in DOMAIN args.detail}

BuiltBlock(type) ==
    /\ epc = "done"
    /\ ev_in.fam = "block"
    /\ ev_in.type = type
    /\ arglist.built

\* C13: the detail of an indented code block (fence_char NUL) has none of
\* the keys info, lang, fence_char; the detail of a fenced code block has
\* all three, fence_char being the engine's fence character.
CexIndentedCodeHasNoFenceKeys ==
    BuiltBlock("CODE") =>
        IF ev_in.detail.fence_char = 0
        THEN DOMAIN arglist.detail \cap {"info", "lang", "fence_char"} = {}
        ELSE /\ {"info", "lang", "fence_char"} \subseteq DOMAIN arglist.detail
             /\ arglist.detail.fence_char = PyChar(ev_in.detail.fence_char)

\* C14: the detail of a list item is exactly {is_task: True, task_mark,
\* task_mark_offset} with the engine's mark and offset when the engine's
\* is_task is set, and exactly {is_task: False} when it is not.
ThmListItemDetail ==
    BuiltBlock("LI") =>
        IF ev_in.detail.is_task /= 0
        THEN /\ DOMAIN arglist.detail = {"is_task", "task_mark", "task_mark_offset"}
             /\ arglist.detail.is_task = Py_True
             /\ arglist.detail.task_mark = [kind |-> "str", val |-> <<ev_in.detail.task_mark>>]
             /\ arglist.detail.task_mark_offset =
                   [kind |-> "int", neg |-> FALSE, hi |-> ev_in.detail.task_mark_offset.hi,
                    lo |-> ev_in.detail.task_mark_offset.lo]
        ELSE /\ DOMAIN arglist.detail = {"is_task"}
             /\ arglist.detail.is_task = Py_False

WitListItemDetail ==
    /\ BuiltBlock("LI")
    /\ ev_in.detail = [is_task |-> 0, task_mark |-> 120, task_mark_offset |-> U32(2)]
    /\ arglist = [built |-> TRUE, type |-> get_enum_blocktype("LI"),
                  detail |-> [is_task |-> Py_False]]

IsAscii(text) == \A i \in 1..Len(text) : text[i] < 128

RetypeAttr(o, kind) ==
    IF o.kind = "list"
    THEN [kind |-> "list",
          val |-> [i \in 1..Len(o.val) |->
                      <<o.val[i][1], [kind |-> kind, val |-> o.val[i][2].val]>>]]
    ELSE o

\* an arglist with the type of its text payload and attribute runs replaced
Retype(args, kind) ==
    IF ~args.built THEN args
    ELSE IF "text" \in DOMAIN args
    THEN [built |-> TRUE, type |-> args.type, text |-> [kind |-> kind, val |-> args.text.val]]
    ELSE [built |-> TRUE, type |-> args.type,
          detail |-> [k \in DOMAIN args.detail |-> RetypeAttr(args.detail[k], kind)]]

KindOf(is_bytes) == IF is_bytes THEN "bytes" ELSE "str"

ThmTableDetail ==
    /\ BuiltBlock("TABLE") =>
          /\ DOMAIN arglist.detail = {"col_count", "head_row_count", "body_row_count"}
          /\ \A k \in DOMAIN arglist.detail :
                arglist.detail[k] = [kind |-> "int", neg |-> FALSE,
                                     hi |-> ev_in.detail[k].hi, lo |-> ev_in.detail[k].lo]
    /\ (BuiltBlock("TH") \/ BuiltBlock("TD")) =>
          /\ DOMAIN arglist.detail = {"align"}
          /\ arglist.detail.align.kind = "Align"
          /\ arglist.detail.align.val =
                (CASE ev_in.detail.align = 0 -> "DEFAULT"
                   [] ev_in.detail.align = 1 -> "LEFT"
                   [] ev_in.detail.align = 2 -> "CENTER"
                   [] ev_in.detail.align = 3 -> "RIGHT")

WitTableDetail ==
    /\ BuiltBlock("TABLE")
    /\ ev_in.detail.col_count = U32(3)
    /\ ev_in.detail.body_row_count = U32(2)
    /\ arglist.detail = [col_count |-> PyUnsigned(U32(3)), head_row_count |-> PyUnsigned(U32(1)),
                         body_row_count |-> PyUnsigned(U32(2))]

Stored == IF ctor = "GenericParser" THEN gp_self.parser_flags ELSE self.parser_flags

\* C15: after either constructor a bit is in the stored parser mask exactly
\* when it is in the raw parser_flags or in the constant of a parser
\* keyword passed as true, and likewise for HTMLRenderer's renderer mask
\* and renderer keywords: a false keyword clears nothing.  The same call
\* with the keywords' constants OR-ed into the raw masks and no keyword
\* stores the same masks.
ThmFlagTranslation ==
    fpc = "done" =>
        LET pk == kwds.true \cap Range(ParserKeywords)
            rk == kwds.true \cap Range(RendererKeywords)
            pflags == kwds.parser_flags \cup UNION {FlagOf(k) : k \in pk}
            rflags == kwds.renderer_flags \cup UNION {FlagOf(k) : k \in rk}
        IN  /\ Stored = pflags
            /\ OrKeywords(pflags, ParserKeywords, {}) = Stored
            /\ ctor = "HTMLRenderer" =>
                  /\ self.renderer_flags = rflags
                  /\ OrKeywords(rflags, RendererKeywords, {}) = self.renderer_flags

WitFlagTranslation ==
    /\ fpc = "done"
    /\ ctor = "HTMLRenderer"
    /\ kwds = [parser_flags |-> {"NOHTMLBLOCKS", "OTHER"}, renderer_flags |-> {"XHTML"},
               true |-> {"permissive_autolinks", "debug"}]
    /\ self = [parser_flags |-> {"NOHTMLBLOCKS", "OTHER", "PERMISSIVEURLAUTOLINKS",
                                 "PERMISSIVEEMAILAUTOLINKS", "PERMISSIVEWWWAUTOLINKS"},
               renderer_flags |-> {"XHTML", "DEBUG"}]

DecDigits == 48..57

HexDigits == DecDigits \cup 65..70 \cup 97..102

\* &#D; with 1 to 7 decimal digits, &#xH; with 1 to 6 hexadecimal digits
ValidNumericEntity(e) ==
    /\ Len(e) >= 4
    /\ e[1] = 38
    /\ e[2] = 35
    /\ e[Len(e)] = 59
    /\ \/ /\ Len(e) \in 4..10
          /\ \A i \in 3..(Len(e) - 1) : e[i] \in DecDigits
       \/ /\ Len(e) \in 5..10
          /\ e[3] \in {120, 88}
          /\ \A i \in 4..(Len(e) - 1) : e[i] \in HexDigits

ValidEntity(e) == ValidNumericEntity(e) \/ entity_lookup(e) /= <<>>

\* C20: for an input that is neither a known entity name nor a well-formed
\* numeric reference, lookup_entity returns the input itself.
CexInvalidEntityUnmodified ==
    (lpc = "done" /\ ~ValidEntity(entity)) =>
        l_result = [ret |-> "str", val |-> entity]

\* C21: in a render call, after buffer_init and after every buffer_append,
\* failed or not, pos <= len holds (and len is the size of the storage),
\* and no step of the call makes len smaller.
ThmLengthWithinCapacity ==
    [][\A c \in Calls :
          /\ buf'[c].pos <= buf'[c].len
          /\ buf'[c].len = Len(buf'[c].data)
          /\ buf'[c].len >= buf[c].len]_vars

WitLengthWithinCapacity ==
    /\ rpc[1] = "md_html"
    /\ buf[1].live
    /\ appendrc[1] = <<0, -1>>
    /\ Len(chunks[1][2]) = 600
    /\ buf[1].pos = 600
    /\ buf[1].len = 1024

\* C22: the str a successful render returns holds exactly the bytes
\* [0, pos) of the buffer, not its len bytes, and when it has been built
\* the buffer's storage has been freed exactly once.
ThmResultIsRegion ==
    \A c \in Calls :
        rret[c] /= NoResult =>
            /\ rret[c].kind = "str"
            /\ Len(rret[c].val) = buf[c].pos
            /\ \A i \in 1..buf[c].pos : rret[c].val[i] = buf[c].data[i]
            /\ ~buf[c].live
            /\ buf[c].frees = 1

WitResultIsRegion ==
    /\ rpc[1] = "returned"
    /\ rret[1].kind = "str"
    /\ Len(rret[1].val) = 257
    /\ buf[1].len = 512
    /\ buf[1].frees = 1

\* C23: GenericParser_md_attribute returns None exactly for an attribute
\* whose text is NULL, and reads no entry of substr_offsets then; an
\* attribute with text of size 0 gives the empty list (unless PyList_New
\* fails).
ThmAbsentIffNoText ==
    apc = "done" =>
        /\ (a_out.ret = "None") <=> attr.text_null
        /\ attr.text_null => a_out.read = 0
        /\ (~attr.text_null /\ attr.size = 0 /\ nomem_at /= 1) =>
              (a_out.ret = "list" /\ a_out.list = <<>>)

WitAbsentIffNoText ==
    /\ apc = "done"
    /\ attr.text_null
    /\ attr.substr_offsets = <<>>
    /\ a_out = [ret |-> "None", list |-> <<>>, read |-> 0]

\* the first entry of substr_offsets that equals size
FirstEnd(a) ==
    CHOOSE k \in 1..Len(a.substr_offsets) :
        /\ a.substr_offsets[k] = a.size
        /\ \A j \in 1..(k - 1) : a.substr_offsets[j] /= a.size

\* C25: for an attribute with text whose offsets do not decrease and
\* contain size, the walk ends at the first offset equal to size: it
\* reads no entry after that one, and the list it returns has one pair for
\* each offset before it; it fails only when an allocation fails.
ThmWalkEndsAtSize ==
    (apc = "done" /\ ~attr.text_null) =>
        LET k == FirstEnd(attr)
        IN  /\ a_out.ret \in {"list", "NULL"}
            /\ a_out.read <= k
            /\ a_out.ret = "NULL" => nomem_at \in 1..k
            /\ nomem_at \notin 1..k => a_out.ret = "list"
            /\ a_out.ret = "list" =>
                  /\ a_out.read = k
                  /\ Len(a_out.list) = k - 1
                  /\ \A i \in 1..(k - 1) : a_out.list[i][1] = attr.substr_types[i]

WitWalkEndsAtSize ==
    /\ apc = "done"
    /\ attr.size = 2
    /\ attr.substr_offsets = <<0, 0, 2, 2>>
    /\ a_out.ret = "list"
    /\ Len(a_out.list) = 2
    /\ a_out.read = 3

\* C26: the start of an ordered list reaches the handler as the
\* non-negative integer of the engine's 32 bits, also from 2^31 on.
ThmStartUnsigned ==
    BuiltBlock("OL") =>
        /\ arglist.detail.start.kind = "int"
        /\ ~arglist.detail.start.neg
        /\ arglist.detail.start.hi = ev_in.detail.start.hi
        /\ arglist.detail.start.lo = ev_in.detail.start.lo

WitStartUnsigned ==
    /\ BuiltBlock("OL")
    /\ ev_in.detail.start = [hi |-> 32768, lo |-> 0]
    /\ arglist.detail.start = [kind |-> "int", neg |-> FALSE, hi |-> 32768, lo |-> 0]

SomeNotCallable ==
    /\ pc /= "call"
    /\ \E i \in 1..5 : ~cb_data.callable[i]

FirstNotCallableName ==
    IF ~cb_data.callable[1] THEN "enter_block_callback"
    ELSE IF ~cb_data.callable[2] THEN "leave_block_callback"
    ELSE IF ~cb_data.callable[3] THEN "enter_span_callback"
    ELSE IF ~cb_data.callable[4] THEN "leave_span_callback"
    ELSE "text_callback"

FailedBeforeEngine ==
    /\ pc = "returned"
    /\ retval = "NULL"
    /\ pyerr.type = "TypeError"
    /\ events = <<>>
    /\ calls = <<>>

IsDoubling(old, new) == \E k \in 0..(MaxReallocs + 1) : new = old * 2 ^ k

\* C28: a buffer_append that fails leaves pos and the bytes [0, pos) as they
\* were, len having grown by the doublings that succeeded and the data
\* still not fitting; an append that succeeds, after a failed one too, puts
\* its data at the old pos.
ThmFailedAppendKeepsContents ==
    [][\A c \in Calls :
          appendrc'[c] /= appendrc[c] =>
              LET rc == appendrc'[c][Len(appendrc'[c])]
                  data == chunks'[c][Len(chunks'[c])]
              IN  /\ rc = -1 =>
                        /\ buf'[c].pos = buf[c].pos
                        /\ Region(buf'[c]) = Region(buf[c])
                        /\ IsDoubling(buf[c].len, buf'[c].len)
                        /\ Len(data) > buf'[c].len - buf'[c].pos
                  /\ rc = 0 =>
                        /\ buf'[c].pos = buf[c].pos + Len(data)
                        /\ Region(buf'[c]) = Region(buf[c]) \o data]_vars

WitFailedAppendKeepsContents ==
    /\ appendrc[1] = <<0, -1, 0>>
    /\ Len(chunks[1][1]) = 255
    /\ Len(chunks[1][2]) = 600
    /\ Len(chunks[1][3]) = 256
    /\ buf[1].len = 512
    /\ buf[1].pos = 511
    /\ Region(buf[1]) = chunks[1][1] \o chunks[1][3]

\* C29: a call of HTMLRenderer.parse whose buffer_init succeeded has freed
\* the buffer's storage, once, when it returns.
CexStorageFreedOnEveryPath ==
    \A c \in Calls :
        (rpc[c] \in {"returned", "left"} /\ buf[c].len > 0) =>
            (~buf[c].live /\ buf[c].frees = 1)

\* &#D...; or &#xH...; / &#XH...; with one digit or more
WellFormedNumericEntity(e) ==
    /\ Len(e) >= 4
    /\ e[1] = 38
    /\ e[2] = 35
    /\ e[Len(e)] = 59
    /\ \/ \A i \in 3..(Len(e) - 1) : e[i] \in DecDigits
       \/ /\ Len(e) >= 5
          /\ e[3] \in {120, 88}
          /\ \A i \in 4..(Len(e) - 1) : e[i] \in HexDigits

DigitValue(c) ==
    IF c \in DecDigits THEN c - 48 ELSE IF c \in 65..70 THEN c - 55 ELSE c - 87

\* the value of the digits e[i..Len(e) - 1] after the value v of those
\* before them; every value above 0x10FFFF counts as 0x110000
RECURSIVE NumeralValue(_, _, _, _)
NumeralValue(base, e, i, v) ==
    IF i > Len(e) - 1 THEN v
    ELSE NumeralValue(base, e, i + 1,
                      IF base * v + DigitValue(e[i]) > 1114111 THEN 1114112
                      ELSE base * v + DigitValue(e[i]))

EntityValue(e) ==
    IF e[3] \in {120, 88} THEN NumeralValue(16, e, 4, 0) ELSE NumeralValue(10, e, 3, 0)

\* C30: for a well-formed numeric entity, lookup_entity returns the
\* one-character str of the numeral's value when the value is at most
\* 0x10FFFF, and no str when it is larger.
CexNumericEntityValue ==
    (lpc = "done" /\ WellFormedNumericEntity(entity)) =>
        IF EntityValue(entity) <= 1114111
        THEN l_result = [ret |-> "str", val |-> <<EntityValue(entity)>>]
        ELSE l_result.ret /= "str"

\* C24: in src/pymd4c.c the value a call returns is built from the
\* renderer object's output and out_size fields as they are after the
\* mutex was unlocked, not from the call's own engine run: with two calls
\* on one object, a call can return what the other call's callback wrote.
ThmBuiltFromObjectFields ==
    [][\A c \in Calls :
          /\ (old_pc[c] = "unlocked" /\ old_pc'[c] = "building") =>
                old_arg'[c] = old_self.output
          /\ (old_pc[c] = "building" /\ old_ret'[c] /= OldNoResult) =>
                /\ old_self.out_mutex /= c
                /\ old_ret'[c] = [kind |-> "str", output |-> old_arg[c],
                                  out_size |-> old_self.out_size]]_vars

WitBuiltFromObjectFields ==
    /\ old_pc[1] = "returned"
    /\ old_nchunks[1] = 1
    /\ old_locals[1] = [output |-> [call |-> 1, chunk |-> 1], out_size |-> 1]
    /\ old_ret[1] = [kind |-> "str", output |-> [call |-> 2, chunk |-> 2], out_size |-> 2]

====
